---- MODULE Spec2Model ----
(***************************************************************************)
(* A model of the LSD parser (rust/src/lib.rs).                            *)
(*                                                                         *)
(* A character is its Unicode code point, the input is a finite sequence   *)
(* of characters and the stream is the pair (input, position of the next   *)
(* unread character).  The source of the stream never fails here (the      *)
(* ReadFailure error of an io::Error is not modelled).                     *)
(*                                                                         *)
(* Every read_* function of the parser is an operator from (input, pos)    *)
(* to a record [pos, some, val, err]: the position after the call, whether *)
(* the Option is Some, the value, and the error of an Err result.          *)
(*                                                                         *)
(* An LSD node is  [t |-> "Value", s |-> text],                            *)
(*                 [t |-> "List",  items |-> sequence of nodes],           *)
(*                 [t |-> "Level", ents |-> sequence of [k, v]]            *)
(* (an IndexMap is the sequence of its entries in insertion order).        *)
(***************************************************************************)
EXTENDS Integers, Sequences, FiniteSets, TLC

VARIABLES doc, input, pos, pc, built, out

vars == <<doc, input, pos, pc, built, out>>

----------------------------------------------------------------------------
(* Characters the parser tests for. *)

NoChar == -1
Tab == 9
LF == 10
CR == 13
Space == 32
DQuote == 34
Hash == 35
SQuote == 39
Dot == 46
LBracket == 91
Backslash == 92
RBracket == 93
LBrace == 123
RBrace == 125

----------------------------------------------------------------------------
(* Errors *)

NoErr == [kind |-> "None", key |-> <<>>]
Err(kind) == [kind |-> kind, key |-> <<>>]
KeyCollisionKeyAlreadyExists(key) == [kind |-> "KeyCollisionKeyAlreadyExists", key |-> key]

(* Results of the read_* functions. *)
None(p) == [pos |-> p, some |-> FALSE, val |-> <<>>, err |-> NoErr]
Some(p, v) == [pos |-> p, some |-> TRUE, val |-> v, err |-> NoErr]
Fail(p, e) == [pos |-> p, some |-> FALSE, val |-> <<>>, err |-> e]
Failed(r) == r.err # NoErr

(* let v = ...; F(v) *)
Let(v, F(_)) == F(v)

(* LSD nodes *)
Value(s) == [t |-> "Value", s |-> s]
List(items) == [t |-> "List", items |-> items]
Level(ents) == [t |-> "Level", ents |-> ents]

----------------------------------------------------------------------------
(* Character cursor *)

peek(s, p) == IF p <= Len(s) THEN s[p] ELSE NoChar

(* read_iws: the position after a run of ' ' and '\t'; the run itself is
   SubSeq(s, p, read_iws(s, p) - 1). *)
RECURSIVE read_iws(_, _)
read_iws(s, p) ==
    IF peek(s, p) \in {Space, Tab} THEN read_iws(s, p + 1) ELSE p

iws_text(s, p) == SubSeq(s, p, read_iws(s, p) - 1)

RECURSIVE nws_loop(_, _, _, _)

(* nws_loop without the arm that consumes the text of a comment *)
nws_loop_no_comment(s, p, in_comment, has_newline) ==
    LET c == peek(s, p) IN
    IF c \in {CR, LF} THEN nws_loop(s, read_iws(s, p + 1), FALSE, TRUE)
    ELSE IF c = Hash THEN nws_loop(s, read_iws(s, p + 1), TRUE, has_newline)
    ELSE [pos |-> p, nl |-> has_newline]

(* read_nws: the loop after the first read_iws. *)
nws_loop(s, p, in_comment, has_newline) ==
    LET c == peek(s, p) IN
    IF c \in {CR, LF} THEN nws_loop(s, read_iws(s, p + 1), FALSE, TRUE)
    ELSE IF c # NoChar /\ in_comment THEN nws_loop(s, p + 1, in_comment, has_newline)
    ELSE IF c = Hash THEN nws_loop(s, read_iws(s, p + 1), TRUE, has_newline)
    ELSE [pos |-> p, nl |-> has_newline]

(* read_nws that always answers false *)
read_nws_never(s, p) == [pos |-> nws_loop(s, read_iws(s, p), FALSE, FALSE).pos, nl |-> FALSE]

read_nws(s, p) == nws_loop(s, read_iws(s, p), FALSE, FALSE)

----------------------------------------------------------------------------
(* Lexical scanner: words *)

WordStop == {NoChar, Space, Tab, CR, LF, SQuote, DQuote, Hash}

RECURSIVE word_end(_, _, _)

(* word_end that stops at the delimiters of a key word as well *)
word_end_key_mode(s, p, ignore_char) ==
    LET c == peek(s, p) IN
    IF c \in WordStop \cup {LBrace, RBrace, LBracket, RBracket, Dot} THEN p
    ELSE IF c = ignore_char THEN p
    ELSE word_end(s, p + 1, ignore_char)

word_end(s, p, ignore_char) ==
    LET c == peek(s, p) IN
    IF c \in WordStop THEN p
    ELSE IF c = ignore_char THEN p
    ELSE word_end(s, p + 1, ignore_char)

(* ignore_char is NoChar for Option::None *)
read_word(s, p, ignore_char) ==
    LET e == word_end(s, p, ignore_char) IN
    IF e = p THEN None(p) ELSE Some(e, SubSeq(s, p, e - 1))

KeyWordStop == WordStop \cup {LBrace, RBrace, LBracket, RBracket, Dot}

RECURSIVE key_word_end(_, _)
key_word_end(s, p) ==
    IF peek(s, p) \in KeyWordStop THEN p ELSE key_word_end(s, p + 1)

read_key_word(s, p) ==
    LET e == key_word_end(s, p) IN
    IF e = p THEN None(p) ELSE Some(e, SubSeq(s, p, e - 1))

----------------------------------------------------------------------------
(* Lexical scanner: quoted strings and their escapes *)

(* u4_from_hex_char: the digit's value, or -1 for Err(()) *)
u4_from_hex_char(ch) ==
    IF ch \in 97..102 THEN ch - 97 + 10
    ELSE IF ch \in 65..70 THEN ch - 65 + 10
    ELSE IF ch \in 48..57 THEN ch - 48
    ELSE -1

u8_from_2_hex_chars(ch1, ch2) ==
    IF u4_from_hex_char(ch1) = -1 \/ u4_from_hex_char(ch2) = -1 THEN -1
    ELSE u4_from_hex_char(ch1) * 16 + u4_from_hex_char(ch2)

u16_from_4_hex_chars(ch1, ch2, ch3, ch4) ==
    IF u8_from_2_hex_chars(ch1, ch2) = -1 \/ u8_from_2_hex_chars(ch3, ch4) = -1 THEN -1
    ELSE u8_from_2_hex_chars(ch1, ch2) * 256 + u8_from_2_hex_chars(ch3, ch4)

(* u8::leading_ones *)
leading_ones(b) ==
    IF b >= 255 THEN 8 ELSE IF b >= 254 THEN 7 ELSE IF b >= 252 THEN 6
    ELSE IF b >= 248 THEN 5 ELSE IF b >= 240 THEN 4 ELSE IF b >= 224 THEN 3
    ELSE IF b >= 192 THEN 2 ELSE IF b >= 128 THEN 1 ELSE 0

IsCont(bytes, i) == i <= Len(bytes) /\ bytes[i] \in 128..191

(* String::from_utf8: [ok, chars], the characters the bytes encode *)
RECURSIVE from_utf8(_, _, _)
from_utf8(bytes, i, acc) ==
    IF i > Len(bytes) THEN [ok |-> TRUE, chars |-> acc]
    ELSE LET b == bytes[i] IN
    IF b < 128 THEN from_utf8(bytes, i + 1, Append(acc, b))
    ELSE IF b \in 194..223 THEN
        IF IsCont(bytes, i + 1)
        THEN from_utf8(bytes, i + 2, Append(acc, (b - 192) * 64 + (bytes[i + 1] - 128)))
        ELSE [ok |-> FALSE, chars |-> <<>>]
    ELSE IF b \in 224..239 THEN
        IF /\ IsCont(bytes, i + 1) /\ IsCont(bytes, i + 2)
           /\ (b = 224 => bytes[i + 1] >= 160)
           /\ (b = 237 => bytes[i + 1] <= 159)
        THEN from_utf8(bytes, i + 3,
                 Append(acc, (b - 224) * 4096 + (bytes[i + 1] - 128) * 64
                             + (bytes[i + 2] - 128)))
        ELSE [ok |-> FALSE, chars |-> <<>>]
    ELSE IF b \in 240..244 THEN
        IF /\ IsCont(bytes, i + 1) /\ IsCont(bytes, i + 2) /\ IsCont(bytes, i + 3)
           /\ (b = 240 => bytes[i + 1] >= 144)
           /\ (b = 244 => bytes[i + 1] <= 143)
        THEN from_utf8(bytes, i + 4,
                 Append(acc, (b - 240) * 262144 + (bytes[i + 1] - 128) * 4096
                             + (bytes[i + 2] - 128) * 64 + (bytes[i + 3] - 128)))
        ELSE [ok |-> FALSE, chars |-> <<>>]
    ELSE [ok |-> FALSE, chars |-> <<>>]

(* The continuation escapes of a \x escape: the loop
   `for _ in 0..first_byte.leading_ones()`, n iterations left. *)
RECURSIVE byte_escape_rest(_, _, _, _)
byte_escape_rest(s, p, n, bytes) ==
    IF n = 0 THEN Some(p, bytes)
    ELSE IF p + 1 > Len(s) THEN Fail(p, Err("UnexpectedStringEnd"))
    ELSE IF ~(s[p] = Backslash /\ s[p + 1] \in {120, 88})
         THEN Fail(p, Err("UnexpectedCharInByteEscape"))
    ELSE IF p + 3 > Len(s) THEN Fail(p, Err("UnexpectedStringEnd"))
    ELSE IF u8_from_2_hex_chars(s[p + 2], s[p + 3]) = -1
         THEN Fail(p, Err("UnexpectedCharInByteEscape"))
    ELSE byte_escape_rest(s, p + 4, n - 1,
                          Append(bytes, u8_from_2_hex_chars(s[p + 2], s[p + 3])))

(* The 'x' | 'X' arm; p is the position after the x.  val: the decoded text. *)
byte_escape(s, p) ==
    IF p + 1 > Len(s) THEN Fail(p, Err("UnexpectedStringEnd"))
    ELSE Let(u8_from_2_hex_chars(s[p], s[p + 1]), LAMBDA first_byte :
        IF first_byte = -1 THEN Fail(p, Err("UnexpectedCharInByteEscape"))
        ELSE Let(byte_escape_rest(s, p + 2, leading_ones(first_byte), <<first_byte>>),
                 LAMBDA r :
            IF Failed(r) THEN r
            ELSE Let(from_utf8(r.val, 1, <<>>), LAMBDA d :
                IF d.ok THEN Some(r.pos, d.chars)
                ELSE Fail(r.pos, Err("UnexpectedCharInByteEscape")))))

IsSurrogate(u) == u \in 55296..57343

(* The second \uHHHH of a surrogate pair; p is the position after the
   first escape. *)
second_escape(s, p, first_surrogate) ==
    IF p + 1 > Len(s) THEN Fail(p, Err("UnexpectedStringEnd"))
    ELSE IF ~(s[p] = Backslash /\ s[p + 1] \in {117, 85})
         THEN Fail(p, Err("UnexpectedCharInUnicodeEscape"))
    ELSE IF p + 5 > Len(s) THEN Fail(p, Err("UnexpectedStringEnd"))
    ELSE Let(u16_from_4_hex_chars(s[p + 2], s[p + 3], s[p + 4], s[p + 5]),
             LAMBDA second_surrogate :
        IF second_surrogate = -1 THEN Fail(p, Err("UnexpectedCharInUnicodeEscape"))
        ELSE IF first_surrogate \in 55296..56319 /\ second_surrogate \in 56320..57343
             THEN Some(p + 6, <<65536 + (first_surrogate - 55296) * 1024
                                      + (second_surrogate - 56320)>>)
        ELSE Fail(p, Err("UnexpectedCharInUnicodeEscape")))

(* The 'u' | 'U' arm; p is the position after the u.  val: the decoded text. *)
unicode_escape(s, p) ==
    IF p + 3 > Len(s) THEN Fail(p, Err("UnexpectedStringEnd"))
    ELSE Let(u16_from_4_hex_chars(s[p], s[p + 1], s[p + 2], s[p + 3]),
             LAMBDA first_surrogate :
        IF first_surrogate = -1 THEN Fail(p, Err("UnexpectedCharInUnicodeEscape"))
        ELSE IF ~IsSurrogate(first_surrogate) THEN Some(p + 4, <<first_surrogate>>)
        ELSE second_escape(s, p + 4, first_surrogate))

(* The one-character escapes: escape letter -> character *)
SimpleEscape ==
    (DQuote :> DQuote) @@ (Backslash :> Backslash) @@ (SQuote :> SQuote)
    @@ (48 :> 0)
    @@ (97 :> 7) @@ (65 :> 7) @@ (98 :> 8) @@ (66 :> 8)
    @@ (116 :> Tab) @@ (84 :> Tab) @@ (110 :> LF) @@ (78 :> LF)
    @@ (118 :> 11) @@ (86 :> 11) @@ (102 :> 12) @@ (70 :> 12)
    @@ (114 :> CR) @@ (82 :> CR)

(* read_escape that copies an unrecognised escape letter as written *)
read_escape_verbatim(s, p) ==
    IF p > Len(s) THEN Fail(p, Err("UnexpectedCharEscapeEnd"))
    ELSE IF s[p] \in DOMAIN SimpleEscape THEN Some(p + 1, <<SimpleEscape[s[p]]>>)
    ELSE IF s[p] \in {120, 88} THEN byte_escape(s, p + 1)
    ELSE IF s[p] \in {117, 85} THEN unicode_escape(s, p + 1)
    ELSE Some(p + 1, <<s[p]>>)

(* The text of the escape whose letter is at p: [pos, some, val, err] *)
read_escape(s, p) ==
    IF p > Len(s) THEN Fail(p, Err("UnexpectedCharEscapeEnd"))
    ELSE IF s[p] \in DOMAIN SimpleEscape THEN Some(p + 1, <<SimpleEscape[s[p]]>>)
    ELSE IF s[p] \in {120, 88} THEN byte_escape(s, p + 1)
    ELSE IF s[p] \in {117, 85} THEN unicode_escape(s, p + 1)
    ELSE Fail(p, Err("UnexpectedCharEscapeEnd"))

RECURSIVE string_loop(_, _, _, _)

(* string_loop that takes the end of the input for the closing quote *)
string_loop_end_closes(s, p, closing_char, result) ==
    IF p > Len(s) THEN Some(p, result)
    ELSE IF s[p] = Backslash THEN
        Let(read_escape(s, p + 1), LAMBDA r :
            IF Failed(r) THEN r ELSE string_loop(s, r.pos, closing_char, result \o r.val))
    ELSE IF s[p] = closing_char THEN Some(p + 1, result)
    ELSE string_loop(s, p + 1, closing_char, Append(result, s[p]))

(* The loop of read_string, after the opening quote. *)
string_loop(s, p, closing_char, result) ==
    IF p > Len(s) THEN Fail(p, Err("UnexpectedStringEnd"))
    ELSE IF s[p] = Backslash THEN
        Let(read_escape(s, p + 1), LAMBDA r :
            IF Failed(r) THEN r ELSE string_loop(s, r.pos, closing_char, result \o r.val))
    ELSE IF s[p] = closing_char THEN Some(p + 1, result)
    ELSE string_loop(s, p + 1, closing_char, Append(result, s[p]))

read_string(s, p) ==
    IF peek(s, p) \in {DQuote, SQuote} THEN string_loop(s, p + 1, s[p], <<>>)
    ELSE None(p)

----------------------------------------------------------------------------
(* Value assembler *)

read_value_part(s, p, ignore_char) ==
    Let(read_word(s, p, ignore_char), LAMBDA word :
        IF word.some THEN word ELSE read_string(s, p))

RECURSIVE value_loop(_, _, _, _)

(* value_loop that does not push the whitespace between two parts *)
value_loop_no_iws(s, p, ignore_char, result) ==
    Let(read_value_part(s, read_iws(s, p), ignore_char), LAMBDA part :
        IF Failed(part) THEN part
        ELSE IF part.some
             THEN value_loop(s, part.pos, ignore_char, result \o part.val)
        ELSE Some(part.pos, result))

(* The loop of read_value, after the first part. *)
value_loop(s, p, ignore_char, result) ==
    Let(read_value_part(s, read_iws(s, p), ignore_char), LAMBDA part :
        IF Failed(part) THEN part
        ELSE IF part.some
             THEN value_loop(s, part.pos, ignore_char, result \o iws_text(s, p) \o part.val)
        ELSE Some(part.pos, result))

read_value(s, p, ignore_char) ==
    Let(read_value_part(s, p, ignore_char), LAMBDA first :
        IF Failed(first) \/ ~first.some THEN first
        ELSE value_loop(s, first.pos, ignore_char, first.val))

----------------------------------------------------------------------------
(* Keys *)

(* The tail of an iteration of read_key_part when no key word was read. *)
key_part_end(p, result) == IF result = <<>> THEN None(p) ELSE Some(p, result)

(* The loop of read_key_part: key words and strings glued together; an
   empty result (also one made of empty strings) is no key part. *)
RECURSIVE key_part_loop(_, _, _)
key_part_loop(s, p, result) ==
    Let(read_key_word(s, p), LAMBDA word :
        IF word.some THEN key_part_loop(s, word.pos, result \o word.val)
        ELSE Let(read_string(s, p), LAMBDA string :
            IF Failed(string) THEN string
            ELSE IF string.some THEN key_part_loop(s, string.pos, result \o string.val)
            ELSE key_part_end(p, result)))

read_key_part(s, p) == key_part_loop(s, p, <<>>)

(* The loop of read_key_path, after the first part. *)
RECURSIVE key_path_loop(_, _, _)
key_path_loop(s, p, result) ==
    IF peek(s, p) # Dot THEN Some(p, result)
    ELSE Let(read_key_part(s, p + 1), LAMBDA part :
        IF Failed(part) THEN part
        ELSE IF ~part.some THEN Fail(part.pos, Err("ExpectedKeyPartAfterKeySeparator"))
        ELSE key_path_loop(s, part.pos, Append(result, part.val)))

read_key_path(s, p) ==
    Let(read_key_part(s, p), LAMBDA first :
        IF Failed(first) \/ ~first.some THEN first
        ELSE key_path_loop(s, first.pos, <<first.val>>))

RECURSIVE list_value_loop(_, _, _)

(* list_value_loop that ends the value after its first part *)
list_value_loop_first(s, p, result) == Some(read_iws(s, p), result)

(* The loop of read_list_value, after the first part. *)
list_value_loop(s, p, result) ==
    Let(read_key_part(s, read_iws(s, p)), LAMBDA part :
        IF Failed(part) THEN part
        ELSE IF part.some
             THEN list_value_loop(s, part.pos, result \o iws_text(s, p) \o part.val)
        ELSE Some(part.pos, result))

read_list_value(s, p) ==
    Let(read_key_part(s, p), LAMBDA first :
        IF Failed(first) \/ ~first.some THEN first
        ELSE list_value_loop(s, first.pos, first.val))

----------------------------------------------------------------------------
(* Key-path merge engine *)

HasKey(level, key) == \E i \in 1..Len(level) : level[i].k = key

IndexOf(level, key) == CHOOSE i \in 1..Len(level) : level[i].k = key

Get(level, key) == level[IndexOf(level, key)].v

(* IndexMap::insert: replaces the value of a present key in place, appends
   an absent one. *)
Insert(level, key, value) ==
    IF HasKey(level, key)
    THEN [level EXCEPT ![IndexOf(level, key)] = [k |-> key, v |-> value]]
    ELSE Append(level, [k |-> key, v |-> value])

(* entry(key).or_insert_with(|| LSD::Level(Level::default())) *)
OrInsertLevel(level, key) ==
    IF HasKey(level, key) THEN level ELSE Append(level, [k |-> key, v |-> Level(<<>>)])

(* merge_insert that overwrites a present key without an error *)
merge_insert_overwrite(insert_into, key, value) ==
    [lvl |-> Insert(insert_into, key, value), err |-> NoErr]

(* The Value and List arms of merge_level: insert, then fail when the key
   was present.  [lvl, err] *)
merge_insert(insert_into, key, value) ==
    [lvl |-> Insert(insert_into, key, value),
     err |-> IF HasKey(insert_into, key) THEN KeyCollisionKeyAlreadyExists(key) ELSE NoErr]

RECURSIVE merge_from(_, _, _)

(* merge_level(insert_into, level): [lvl, err] *)
merge_level(insert_into, level) == merge_from(insert_into, level, 1)

(* merge_into_entry that puts the incoming level in the place of an entry
   that is not a Level *)
merge_into_entry_replace(with, key, lvl) ==
    IF Get(with, key).t # "Level"
    THEN [lvl |-> Insert(with, key, Level(lvl)), err |-> NoErr]
    ELSE Let(merge_level(Get(with, key).ents, lvl), LAMBDA r :
        [lvl |-> Insert(with, key, Level(r.lvl)), err |-> r.err])

(* merge_into_entry that inserts the incoming level instead of merging it
   into the level that is there *)
merge_into_entry_shallow(with, key, lvl) ==
    IF Get(with, key).t # "Level"
    THEN [lvl |-> with, err |-> Err("KeyCollisionShouldBeLevelButIsNot")]
    ELSE [lvl |-> Insert(with, key, Level(lvl)), err |-> NoErr]

(* The Level arm of merge_level; with: insert_into after or_insert_with *)
merge_into_entry(with, key, lvl) ==
    IF Get(with, key).t # "Level"
    THEN [lvl |-> with, err |-> Err("KeyCollisionShouldBeLevelButIsNot")]
    ELSE Let(merge_level(Get(with, key).ents, lvl), LAMBDA r :
        [lvl |-> Insert(with, key, Level(r.lvl)), err |-> r.err])

(* One entry (key, value) of the for loop of merge_level. *)
merge_entry(insert_into, key, value) ==
    IF value.t \in {"Value", "List"} THEN merge_insert(insert_into, key, value)
    ELSE merge_into_entry(OrInsertLevel(insert_into, key), key, value.ents)

(* The for loop of merge_level from entry i of level on. *)
merge_from(insert_into, level, i) ==
    IF i > Len(level) THEN [lvl |-> insert_into, err |-> NoErr]
    ELSE Let(merge_entry(insert_into, level[i].k, level[i].v), LAMBDA r :
        IF r.err # NoErr THEN r ELSE merge_from(r.lvl, level, i + 1))

(* "wrap key-lsd pair in key parts": the level { k1 { k2 { ... kn lsd } } }
   for the parts i..n of key. *)
RECURSIVE wrap(_, _, _)

(* wrap that keeps only one part of the key *)
wrap_one_part(key, i, lsd) == <<[k |-> key[i], v |-> lsd]>>

wrap(key, i, lsd) ==
    IF i = Len(key) THEN <<[k |-> key[i], v |-> lsd]>>
    ELSE <<[k |-> key[i], v |-> Level(wrap(key, i + 1, lsd))]>>

----------------------------------------------------------------------------
(* Structural parser *)

RECURSIVE read_lsd(_, _, _), read_level(_, _), level_loop(_, _, _, _),
          level_iter(_, _, _, _), read_list(_, _), list_loop(_, _, _),
          read_list_lsd(_, _)

(* Some(LSD::Value(value)) of a value that was read *)
as_value(value) ==
    IF Failed(value) \/ ~value.some THEN value ELSE Some(value.pos, Value(value.val))

read_lsd(s, p, value_ignore_char) ==
    Let(read_list(s, p), LAMBDA list :
        IF Failed(list) THEN list
        ELSE IF list.some THEN Some(list.pos, List(list.val))
        ELSE Let(read_level(s, p), LAMBDA level :
            IF Failed(level) THEN level
            ELSE IF level.some THEN Some(level.pos, Level(level.val))
            ELSE as_value(read_value(s, p, value_ignore_char))))

(* The results of an iteration of the loop of read_level_inner:
   [pos, results, done, err]; done: the loop was left. *)
Left(p, results, e) == [pos |-> p, results |-> results, done |-> TRUE, err |-> e]

(* The end of an iteration: the pair is merged into results, then read_nws.
   (The code calls read_nws before the merge; neither reads what the other
   writes.) *)
merge_pair(s, results, key, lsd) ==
    Let(merge_level(results, wrap(key, 1, lsd.val)), LAMBDA m :
        [pos |-> read_nws(s, lsd.pos).pos, results |-> m.lvl,
         done |-> m.err # NoErr, err |-> m.err])

(* One iteration of the loop of read_level_inner, results being the level
   built so far. *)
level_iter(s, p, level_ends_with_close, results) ==
    IF level_ends_with_close /\ peek(s, p) = RBrace THEN Left(p + 1, results, NoErr)
    ELSE Let(read_key_path(s, p), LAMBDA key :
        IF Failed(key) THEN Left(key.pos, results, key.err)
        ELSE IF ~key.some
             THEN Left(p, results,
                       IF level_ends_with_close THEN Err("ExpectedKeyOrEnd") ELSE NoErr)
        ELSE Let(read_lsd(s, read_nws(s, key.pos).pos, RBrace), LAMBDA lsd :
            IF Failed(lsd) THEN Left(lsd.pos, results, lsd.err)
            ELSE IF ~lsd.some THEN Left(lsd.pos, results, Err("ExpectedLSDAfterKey"))
            ELSE merge_pair(s, results, key.val, lsd)))

level_loop(s, p, level_ends_with_close, results) ==
    Let(level_iter(s, p, level_ends_with_close, results), LAMBDA it :
        IF it.err # NoErr THEN Fail(it.pos, it.err)
        ELSE IF it.done THEN Some(it.pos, it.results)
        ELSE level_loop(s, it.pos, level_ends_with_close, it.results))

read_level_inner(s, p, level_ends_with_close) ==
    level_loop(s, p, level_ends_with_close, <<>>)

read_level(s, p) ==
    IF peek(s, p) = LBrace THEN read_level_inner(s, read_nws(s, p + 1).pos, TRUE)
    ELSE None(p)

read_list_lsd(s, p) ==
    Let(read_list(s, p), LAMBDA list :
        IF Failed(list) THEN list
        ELSE IF list.some THEN Some(list.pos, List(list.val))
        ELSE Let(read_level(s, p), LAMBDA level :
            IF Failed(level) THEN level
            ELSE IF level.some THEN Some(level.pos, Level(level.val))
            ELSE as_value(read_list_value(s, p))))

(* The loop of read_list, results being the items read so far. *)
list_loop(s, p, results) ==
    IF peek(s, p) = RBracket THEN Some(p + 1, results)
    ELSE Let(read_list_lsd(s, p), LAMBDA item :
        IF Failed(item) THEN item
        ELSE IF ~item.some THEN Fail(item.pos, Err("ExpectedListLSDOrEnd"))
        ELSE list_loop(s, read_nws(s, item.pos).pos, Append(results, item.val)))

read_list(s, p) ==
    IF peek(s, p) = LBracket THEN list_loop(s, read_nws(s, p + 1).pos, <<>>)
    ELSE None(p)

----------------------------------------------------------------------------
(* LSD::parse, step by step.

   doc    what the input was made from (kept to state the properties; the
          parser never reads it)
   input  the characters of the stream
   pos    the position of the next unread character
   pc     "start": before the first read_nws; "root": choosing the root;
          "bare": in the loop of read_level_inner(stream, false);
          "end": after a root level or list; "done": parse has returned
   built  `results` of the bare read_level_inner
   out    the Result of parse: [ok, tree, err]                            *)

Ok(tree) == [ok |-> TRUE, tree |-> tree, err |-> NoErr]
Error(e) == [ok |-> FALSE, tree |-> Level(<<>>), err |-> e]
NotYet == [ok |-> FALSE, tree |-> Level(<<>>), err |-> NoErr]

(* read_nws(stream)? at the head of parse *)
SkipLeading ==
    /\ pc = "start"
    /\ pos' = read_nws(input, pos).pos
    /\ pc' = "root"
    /\ UNCHANGED <<doc, input, built, out>>

(* Whether `if let Some(_) = r?` takes the stream: r is Err or Some. *)
Taken(r) == Failed(r) \/ r.some

(* What parse does with a root node read by read_level or read_list. *)
root_read(r, tree) ==
    /\ pos' = r.pos
    /\ IF Failed(r)
       THEN /\ out' = Error(r.err)
            /\ pc' = "done"
       ELSE /\ out' = Ok(tree)
            /\ pc' = "end"

(* if let Some(level) = read_level(stream)? *)
RootLevel ==
    /\ pc = "root"
    /\ Let(read_level(input, pos), LAMBDA level :
           Taken(level) /\ root_read(level, Level(level.val)))
    /\ UNCHANGED <<doc, input, built>>

(* if let Some(list) = read_list(stream)?  (read_level returned None: the
   next character is not '{') *)
RootList ==
    /\ pc = "root"
    /\ peek(input, pos) # LBrace
    /\ Let(read_list(input, pos), LAMBDA list :
           Taken(list) /\ root_read(list, List(list.val)))
    /\ UNCHANGED <<doc, input, built>>

(* file_end skipping spaces and tabs only *)
file_end_iws(s, p, result) ==
    IF peek(s, read_iws(s, p)) # NoChar THEN Error(Err("UnexpectedCharAtFileEnd"))
    ELSE result

(* read_nws(stream)?; if let Some(_) = peek(stream)? { return Err(..) } *)
file_end(s, p, result) ==
    IF peek(s, read_nws(s, p).pos) # NoChar THEN Error(Err("UnexpectedCharAtFileEnd"))
    ELSE result

FileEnd ==
    /\ pc = "end"
    /\ pos' = read_nws(input, pos).pos
    /\ out' = file_end(input, pos, out)
    /\ pc' = "done"
    /\ UNCHANGED <<doc, input, built>>

(* What read_level_inner(stream, false) returns to parse when its loop is
   left with the iteration result it. *)
bare_result(it) == IF it.err # NoErr THEN Error(it.err) ELSE Ok(Level(it.results))

(* bare_iter that leaves the cursor where it was when the loop goes on *)
bare_iter_again(it) ==
    IF it.done
    THEN pos' = it.pos /\ built' = it.results /\ out' = bare_result(it) /\ pc' = "done"
    ELSE pos' = pos /\ built' = it.results /\ out' = out /\ pc' = "bare"

bare_iter(it) ==
    /\ pos' = it.pos
    /\ built' = it.results
    /\ IF it.done
       THEN /\ out' = bare_result(it)
            /\ pc' = "done"
       ELSE /\ out' = out
            /\ pc' = "bare"

(* The root read as any LSD: a lone scalar is returned as a Value. *)
BareStepAsLsd ==
    /\ pc = "root" /\ peek(input, pos) \notin {LBrace, LBracket}
    /\ Let(read_value(input, pos, NoChar), LAMBDA value :
           /\ pos' = value.pos
           /\ out' = IF Failed(value) THEN Error(value.err)
                     ELSE IF value.some THEN Ok(Value(value.val))
                     ELSE Ok(Level(<<>>))
           /\ pc' = "done")
    /\ UNCHANGED <<doc, input, built>>

(* Ok(LSD::Level(read_level_inner(stream, false)?)): one iteration of its
   loop.  (read_level and read_list returned None: the next character is
   neither '{' nor '['.) *)
BareStep ==
    /\ \/ pc = "bare"
       \/ pc = "root" /\ peek(input, pos) \notin {LBrace, LBracket}
    /\ bare_iter(level_iter(input, pos, FALSE, built))
    /\ UNCHANGED <<doc, input>>

Next == SkipLeading \/ RootLevel \/ RootList \/ FileEnd \/ BareStep

Start(d, s) ==
    /\ doc = d
    /\ input = s
    /\ pos = 1
    /\ pc = "start"
    /\ built = <<>>
    /\ out = NotYet

Done == pc = "done"

----------------------------------------------------------------------------
(* Documents over a small alphabet, every sequence up to MaxDocLen. *)

MaxDocLen == 4

DocChars == {97, Space, LF, Hash, LBrace, RBrace, LBracket, RBracket, Dot}

SeqsUpTo(S, n) == UNION {[1..m -> S] : m \in 0..n}

BlankChars == {Space, Tab, CR, LF, Hash, 97}

MaxBlankLen == 4

(* A root list or level, or nothing, followed by blanks and comments. *)
BlankDocs ==
    {prefix \o b : prefix \in {<<>>, <<LBracket, RBracket>>, <<LBrace, RBrace>>},
                   b \in SeqsUpTo(BlankChars, MaxBlankLen)}

RawDoc(s) == [fam |-> "raw", wrap |-> "none", toks |-> <<>>]

InitDoc == \E s \in SeqsUpTo(DocChars, MaxDocLen) \cup BlankDocs : Start(RawDoc(s), s)

SpecDoc == InitDoc /\ [][Next]_vars

(* The characters of s from p on are spaces, tabs, line terminators and
   comments only (in_comment: p is inside a comment). *)
RECURSIVE AllBlank(_, _, _)
AllBlank(s, p, in_comment) ==
    \/ p > Len(s)
    \/ /\ p <= Len(s)
       /\ IF s[p] \in {CR, LF} THEN AllBlank(s, p + 1, FALSE)
          ELSE IF in_comment THEN AllBlank(s, p + 1, TRUE)
          ELSE IF s[p] = Hash THEN AllBlank(s, p + 1, TRUE)
          ELSE s[p] \in {Space, Tab} /\ AllBlank(s, p + 1, FALSE)

(* The first character of s that is not blank or in a comment, NoChar when
   there is none. *)
RECURSIVE FirstChar(_, _, _)
FirstChar(s, p, in_comment) ==
    IF p > Len(s) THEN NoChar
    ELSE IF s[p] \in {CR, LF} THEN FirstChar(s, p + 1, FALSE)
    ELSE IF in_comment THEN FirstChar(s, p + 1, TRUE)
    ELSE IF s[p] = Hash THEN FirstChar(s, p + 1, TRUE)
    ELSE IF s[p] \in {Space, Tab} THEN FirstChar(s, p + 1, FALSE)
    ELSE s[p]

(* C4: every successful parse returns a List or a Level, never a Value; a
   document that is one scalar token is not returned as a Value. *)
C4_RootIsListOrLevel ==
    Done /\ out.ok => out.tree.t \in {"List", "Level"}

(* a successful parse of a document that holds a pair *)
C4_Witness ==
    Done /\ out.ok /\ out.tree.t = "Level" /\ out.tree.ents # <<>>

(* C5: a successful parse of a document whose first character is neither
   '[' nor '{' leaves no character unread. *)
C5_BareReadsToEnd ==
    Done /\ out.ok /\ FirstChar(input, 1, FALSE) \notin {LBracket, LBrace}
        => pos > Len(input)

(* C6: after a root list or level, parse fails with UnexpectedCharAtFileEnd
   when a character follows that is not blank or in a comment, and succeeds
   when none does. *)
C6_TrailingContent ==
    [][pc = "end" =>
         IF AllBlank(input, pos, FALSE) THEN out' = out /\ out'.ok
         ELSE out' = Error(Err("UnexpectedCharAtFileEnd"))]_vars

(* both cases of C6 are reached: blanks and a comment accepted, a
   character rejected *)
C6_Witness ==
    /\ Done
    /\ out.err = Err("UnexpectedCharAtFileEnd")
    /\ Hash \in {input[i] : i \in 1..Len(input)}

C6_WitnessAccepted ==
    /\ Done /\ out.ok
    /\ FirstChar(input, 1, FALSE) \in {LBracket, LBrace}
    /\ {Hash, LF} \subseteq {input[i] : i \in 1..Len(input)}

(* C10: an input of spaces, tabs, line terminators and comments only
   parses to an empty Level. *)
C10_BlankIsEmptyLevel ==
    Done /\ AllBlank(input, 1, FALSE) => out = Ok(Level(<<>>))

(* a comment, a line break and a space were parsed to the empty Level *)
C10_Witness ==
    /\ Done /\ AllBlank(input, 1, FALSE)
    /\ {Hash, LF, 97, Space} \subseteq {input[i] : i \in 1..Len(input)}

----------------------------------------------------------------------------
(* Level bodies made of key/value pairs: up to MaxPairs pairs, each a key
   path of PairPaths and a node of PairNodes, one pair per line; the body is
   the document (bare), or stands in braces, or in braces in a root list. *)

MaxPairs == 3

Wraps == {"bare", "braced", "list"}

PairPaths == {<<(<<97>>)>>, <<(<<97>>), (<<98>>)>>, <<(<<97>>), (<<99>>)>>}

(* 1   [2]   {}   {b 2} *)
PairNodes ==
    { [text |-> <<49>>, tree |-> Value(<<49>>)],
      [text |-> <<LBracket, 50, RBracket>>, tree |-> List(<<Value(<<50>>)>>)],
      [text |-> <<LBrace, RBrace>>, tree |-> Level(<<>>)],
      [text |-> <<LBrace, 98, Space, 50, RBrace>>,
       tree |-> Level(<<[k |-> <<98>>, v |-> Value(<<50>>)]>>)] }

Pairs == {[path |-> p, text |-> n.text, tree |-> n.tree] : p \in PairPaths, n \in PairNodes}

(* k1.k2...kn *)
RECURSIVE PathText(_, _)
PathText(path, i) ==
    IF i > Len(path) THEN <<>>
    ELSE path[i] \o (IF i < Len(path) THEN <<Dot>> ELSE <<>>) \o PathText(path, i + 1)

PairText(pair) == PathText(pair.path, 1) \o <<Space>> \o pair.text

(* the lines of toks, from the i-th on, a line break between two lines *)
RECURSIVE Lines(_, _, _)
Lines(Text(_), toks, i) ==
    IF i > Len(toks) THEN <<>>
    ELSE Text(toks[i]) \o (IF i < Len(toks) THEN <<LF>> ELSE <<>>) \o Lines(Text, toks, i + 1)

Wrapped(w, body) ==
    IF w = "bare" THEN body
    ELSE IF w = "braced" THEN <<LBrace>> \o body \o <<RBrace>>
    ELSE <<LBracket, LBrace>> \o body \o <<RBrace, RBracket>>

PairDoc(w, toks) == [fam |-> "pairs", wrap |-> w, toks |-> toks]

InitMerge ==
    \E w \in Wraps, toks \in SeqsUpTo(Pairs, MaxPairs) :
        Start(PairDoc(w, toks), Wrapped(w, Lines(PairText, toks, 1)))

SpecMerge == InitMerge /\ [][Next]_vars

(* What a pair puts into the level: its leaves, in the order the merge
   visits them.  A leaf is [path, kind, node]: a Value or List at path
   (kind "leaf"), or an empty Level at path (kind "level"). *)
RECURSIVE NodeLeaves(_, _), EntryLeaves(_, _, _)
NodeLeaves(path, node) ==
    IF node.t # "Level" THEN <<[path |-> path, kind |-> "leaf", node |-> node]>>
    ELSE IF node.ents = <<>> THEN <<[path |-> path, kind |-> "level", node |-> node]>>
    ELSE EntryLeaves(path, node.ents, 1)

EntryLeaves(path, ents, i) ==
    IF i > Len(ents) THEN <<>>
    ELSE NodeLeaves(Append(path, ents[i].k), ents[i].v) \o EntryLeaves(path, ents, i + 1)

RECURSIVE DocLeaves(_, _)
DocLeaves(toks, i) ==
    IF i > Len(toks) THEN <<>>
    ELSE NodeLeaves(toks[i].path, toks[i].tree) \o DocLeaves(toks, i + 1)

IsPrefix(p, q) == Len(p) <= Len(q) /\ SubSeq(q, 1, Len(p)) = p

(* Leaf j meets, on its way down, a key that an earlier leaf made a Value
   or a List, where leaf j brings a Level. *)
NeedsLevel(L, j) ==
    \E i \in 1..(j - 1) :
        /\ L[i].kind = "leaf"
        /\ IsPrefix(L[i].path, L[j].path)
        /\ (L[i].path = L[j].path => L[j].kind = "level")

(* Leaf j brings a Value or a List to a key that earlier leaves have
   already put an entry at (of any variant). *)
KeyTaken(L, j) ==
    /\ L[j].kind = "leaf"
    /\ \E i \in 1..(j - 1) : IsPrefix(L[j].path, L[i].path)

Collides(L, j) == NeedsLevel(L, j) \/ KeyTaken(L, j)

(* The first leaf that collides with the leaves before it; 0: none does. *)
FirstCollision(L) ==
    IF \E j \in 1..Len(L) : Collides(L, j)
    THEN CHOOSE j \in 1..Len(L) :
             Collides(L, j) /\ \A i \in 1..(j - 1) : ~Collides(L, i)
    ELSE 0

Last(q) == q[Len(q)]

Missing == [t |-> "Missing"]

(* the node at path (from part i on) under the entries ents *)
RECURSIVE Lookup(_, _, _)
Lookup(ents, path, i) ==
    IF ~HasKey(ents, path[i]) THEN Missing
    ELSE IF i = Len(path) THEN Get(ents, path[i])
    ELSE IF Get(ents, path[i]).t # "Level" THEN Missing
    ELSE Lookup(Get(ents, path[i]).ents, path, i + 1)

(* the entries of the level the pairs of the document were read into *)
Body(d, tree) == IF d.wrap = "list" THEN tree.items[1].ents ELSE tree.ents

(* every key occurs once in the level and in the levels below it *)
RECURSIVE UniqueKeys(_)
UniqueKeys(ents) ==
    /\ \A i, j \in 1..Len(ents) : ents[i].k = ents[j].k => i = j
    /\ \A i \in 1..Len(ents) : ents[i].v.t = "Level" => UniqueKeys(ents[i].v.ents)

(* every leaf is in the tree at its path: a Value or List as it was
   written, an empty Level as a Level *)
LeavesKept(L, ents) ==
    \A i \in 1..Len(L) :
        IF L[i].kind = "leaf" THEN Lookup(ents, L[i].path, 1) = L[i].node
        ELSE Lookup(ents, L[i].path, 1).t = "Level"

PairsDone == Done /\ doc.fam = "pairs"

(* C1: when the first collision of a level body is a Value or a List that
   comes to a key which already has an entry, parse fails with
   KeyCollisionKeyAlreadyExists of that key part; and a successful parse
   returns every Value and List that was written, none replaced. *)
C1_KeyAlreadyExists ==
    PairsDone =>
        LET L == DocLeaves(doc.toks, 1)
            j == FirstCollision(L)
        IN  /\ j # 0 /\ KeyTaken(L, j)
                => out.err = KeyCollisionKeyAlreadyExists(Last(L[j].path))
            /\ out.ok => \A i \in 1..Len(L) :
                   L[i].kind = "leaf" => Lookup(Body(doc, out.tree), L[i].path, 1) = L[i].node

(* a Value came to a key that held a Level, in the second level down *)
C1_Witness ==
    /\ PairsDone
    /\ LET L == DocLeaves(doc.toks, 1)
           j == FirstCollision(L)
       IN  /\ j # 0 /\ KeyTaken(L, j) /\ Len(L[j].path) = 2
           /\ \E i \in 1..(j - 1) : L[i].kind = "level" /\ L[i].path = L[j].path
    /\ out.err.kind = "KeyCollisionKeyAlreadyExists"

(* C2: when the first collision of a level body is a Level that comes to a
   key which holds a Value or a List, parse fails with
   KeyCollisionShouldBeLevelButIsNot. *)
C2_ShouldBeLevel ==
    PairsDone =>
        LET L == DocLeaves(doc.toks, 1)
            j == FirstCollision(L)
        IN  j # 0 /\ NeedsLevel(L, j) => out.err = Err("KeyCollisionShouldBeLevelButIsNot")

(* `a 1` and later `a.b ...`: the part a of a dotted path came to a Value *)
C2_Witness ==
    /\ PairsDone
    /\ LET L == DocLeaves(doc.toks, 1)
           j == FirstCollision(L)
       IN  /\ j # 0 /\ NeedsLevel(L, j) /\ Len(L[j].path) = 2
           /\ \E i \in 1..(j - 1) : L[i].node = Value(<<49>>) /\ Len(L[i].path) = 1
    /\ out.err.kind = "KeyCollisionShouldBeLevelButIsNot"

(* C3: the pairs of a level body without a collision merge without error
   into one tree: every key occurs once in its level, and the paths that
   share leading parts are all found under the one entry of those parts. *)
C3_PathsMerge ==
    PairsDone =>
        LET L == DocLeaves(doc.toks, 1) IN
        FirstCollision(L) = 0 =>
            /\ out.ok
            /\ UniqueKeys(Body(doc, out.tree))
            /\ LeavesKept(L, Body(doc, out.tree))

(* a.b, then another pair, then a.c: one entry a holding b and c *)
C3_Witness ==
    /\ PairsDone /\ out.ok
    /\ Len(doc.toks) = 3
    /\ doc.toks[1].path = <<(<<97>>), (<<98>>)>> /\ doc.toks[1].tree.t = "Value"
    /\ doc.toks[3].path = <<(<<97>>), (<<99>>)>> /\ doc.toks[3].tree.t = "Value"
    /\ Len(Body(doc, out.tree)) = 1
    /\ Len(Body(doc, out.tree)[1].v.ents) >= 2

----------------------------------------------------------------------------
(* Scalars made of fragments: up to MaxToks tokens, each a word, a quoted
   string, a run of blanks, and in a list also a line break or a nested
   node.  A token is [kind, text, val]: the characters written and what
   they stand for (the text of a fragment, the tree of a node). *)

MaxToks == 4

Word(s) == [kind |-> "frag", text |-> s, val |-> s]
Quoted(text, s) == [kind |-> "frag", text |-> text, val |-> s]
Blank(s) == [kind |-> "ws", text |-> s, val |-> s]
Break == [kind |-> "nl", text |-> <<LF>>, val |-> <<>>]
Node(text, tree) == [kind |-> "node", text |-> text, val |-> tree]

(* 1   1.2   "x y"   ' '   '\t'   '\n'   {}   [] *)
Dotted == Word(<<49, Dot, 50>>)

ListToks ==
    { Word(<<49>>), Dotted,
      Quoted(<<DQuote, 120, Space, 121, DQuote>>, <<120, Space, 121>>),
      Blank(<<Space>>), Blank(<<Tab>>), Break,
      Node(<<LBrace, RBrace>>, Level(<<>>)), Node(<<LBracket, RBracket>>, List(<<>>)) }

RECURSIVE Concat(_, _)
Concat(toks, i) == IF i > Len(toks) THEN <<>> ELSE toks[i].text \o Concat(toks, i + 1)

(* the list is the root, or the value of key c in a bare or braced level *)
ListText(w, toks) ==
    LET list == <<LBracket>> \o Concat(toks, 1) \o <<RBracket>> IN
    IF w = "list" THEN list
    ELSE IF w = "bare" THEN <<99>> \o list
    ELSE <<LBrace, 99>> \o list \o <<RBrace>>

ListDoc(w, toks) == [fam |-> "list", wrap |-> w, toks |-> toks]

InitList ==
    \E w \in Wraps, toks \in SeqsUpTo(ListToks, MaxToks) :
        Start(ListDoc(w, toks), ListText(w, toks))

SpecList == InitList /\ [][Next]_vars

(* The items the tokens of a list stand for: the fragments of a line,
   with the blanks between them, are one Value; a line break or a nested
   node ends it.  has: a Value has begun, cur its text, ws the blanks
   since its last fragment. *)
RECURSIVE Items(_, _, _, _, _)
Flush(has, cur) == IF has THEN <<Value(cur)>> ELSE <<>>
Items(toks, i, has, cur, ws) ==
    IF i > Len(toks) THEN Flush(has, cur)
    ELSE IF toks[i].kind = "frag"
         THEN Items(toks, i + 1, TRUE, IF has THEN cur \o ws \o toks[i].val ELSE toks[i].val, <<>>)
    ELSE IF toks[i].kind = "ws"
         THEN Items(toks, i + 1, has, cur, IF has THEN ws \o toks[i].text ELSE <<>>)
    ELSE IF toks[i].kind = "nl"
         THEN Flush(has, cur) \o Items(toks, i + 1, FALSE, <<>>, <<>>)
    ELSE Flush(has, cur) \o <<toks[i].val>> \o Items(toks, i + 1, FALSE, <<>>, <<>>)

HasTok(toks, tok) == \E i \in 1..Len(toks) : toks[i] = tok

(* the list that was written, in the tree parse returned *)
TheList(d, tree) == IF d.wrap = "list" THEN tree ELSE Get(tree.ents, <<99>>)

ListDone == Done /\ doc.fam = "list"

(* C7: a list scalar word that contains a dot is read as one Value with
   the dot in it. *)
C7_DotIsLiteral ==
    ListDone /\ HasTok(doc.toks, Dotted)
        => out.ok /\ TheList(doc, out.tree) = List(Items(doc.toks, 1, FALSE, <<>>, <<>>))

(* C8: in a list of key words and quoted strings, the fragments of a line
   with the spaces and tabs between them are one Value; a line break, a
   nested level or list, and the closing bracket end it; the items are in
   source order. *)
C8_ListItems ==
    ListDone /\ ~HasTok(doc.toks, Dotted)
        => out.ok /\ TheList(doc, out.tree) = List(Items(doc.toks, 1, FALSE, <<>>, <<>>))

(* `[1 1{}1]`-like lists: a Value of two fragments, a nested node, and
   another Value *)
C8_Witness ==
    /\ ListDone /\ out.ok /\ ~HasTok(doc.toks, Dotted)
    /\ Len(doc.toks) = 4
    /\ doc.toks[1].kind = "frag" /\ doc.toks[2].kind = "ws"
    /\ doc.toks[3].kind = "frag" /\ doc.toks[4].kind = "node"
    /\ Len(TheList(doc, out.tree).items) = 2

----------------------------------------------------------------------------
(* The value of key c written as up to MaxToks fragments and blanks, in a
   bare level, a braced level or a level inside a list, at the end of the
   body or followed by a line `d 1`. *)

(* a   b.[   "x y"   'q\n'   ' '   '\t' *)
ValueToks ==
    { Word(<<97>>), Word(<<98, Dot, LBracket>>),
      Quoted(<<DQuote, 120, Space, 121, DQuote>>, <<120, Space, 121>>),
      Quoted(<<SQuote, 113, Backslash, 110, SQuote>>, <<113, LF>>),
      Blank(<<Space>>), Blank(<<Tab>>) }

ValueText(w, toks, more) ==
    Wrapped(w, <<99, Space>> \o Concat(toks, 1)
                 \o (IF more THEN <<LF, 100, Space, 49>> ELSE <<>>))

ValueDoc(w, toks, more) == [fam |-> "value", wrap |-> w, toks |-> toks, more |-> more]

InitValue ==
    \E w \in Wraps, toks \in SeqsUpTo(ValueToks, MaxToks), more \in BOOLEAN :
        Start(ValueDoc(w, toks, more), ValueText(w, toks, more))

SpecValue == InitValue /\ [][Next]_vars

HasFrag(toks) == \E i \in 1..Len(toks) : toks[i].kind = "frag"

ValueDone == Done /\ doc.fam = "value"

(* C9: the value of a key is the fragments of its line, words as written
   and strings decoded, in order, with each run of spaces and tabs between
   two fragments kept as written; blanks after the last fragment are not
   part of it, and the next line is another pair. *)
C9_ValueIsJoinedFragments ==
    ValueDone /\ HasFrag(doc.toks)
        => /\ out.ok
           /\ <<Get(Body(doc, out.tree), <<99>>)>> = Items(doc.toks, 1, FALSE, <<>>, <<>>)
           /\ Len(Body(doc, out.tree)) = IF doc.more THEN 2 ELSE 1

(* `c a "x y" ` and the like: two fragments with a blank between them and
   a blank after the last one *)
C9_Witness ==
    /\ ValueDone /\ out.ok
    /\ Len(doc.toks) = 4
    /\ doc.toks[1].kind = "frag" /\ doc.toks[2].kind = "ws"
    /\ doc.toks[3].kind = "frag" /\ doc.toks[3].text # doc.toks[3].val
    /\ doc.toks[4].kind = "ws"
    /\ Len(Get(Body(doc, out.tree), <<99>>).s) > 2

----------------------------------------------------------------------------
(* Quoted strings: an opening `"`, up to MaxItems whole items, and a tail
   that closes the string, ends the input or holds a bad escape.  The
   string is the value of key c in a bare or braced level, or the item of
   a root list. *)

MaxItems == 2

(* q   '   \n   \x41   é   😀   \xc3\xa9\x41 *)
X41 == <<Backslash, 120, 52, 49>>
U00e9 == <<Backslash, 117, 48, 48, 101, 57>>
UPair == <<Backslash, 117, 100, 56, 51, 100, Backslash, 117, 100, 101, 48, 48>>
XC3A941 == <<Backslash, 120, 99, 51, Backslash, 120, 97, 57, Backslash, 120, 52, 49>>

StrItems ==
    { Word(<<113>>), Word(<<SQuote>>),
      Quoted(<<Backslash, 110>>, <<LF>>),
      Quoted(X41, <<65>>), Quoted(U00e9, <<233>>), Quoted(UPair, <<128512>>),
      Quoted(XC3A941, <<233, 65>>) }

Ending(kind, text) == [kind |-> kind, text |-> text]

PrefixesOf(s, lo) == {SubSeq(s, 1, n) : n \in lo..(Len(s) - 1)}

(* the input ends in plain content, in the hex digits of an escape, or in
   a continuation or second surrogate escape that is still due *)
EndTails ==
    {Ending("end", s) : s \in {<<>>} \cup PrefixesOf(X41, 2) \cup PrefixesOf(U00e9, 2)
                             \cup PrefixesOf(UPair, 6) \cup PrefixesOf(XC3A941, 4)
                             \cup { <<Backslash, 120, 102, 102>>,
                                    <<Backslash, 117, 100, 102, 102, 102>> }}

(* \   \q   \q"   \j" : the input ends after the backslash, or the escape
   letter is not a recognised one *)
EscapeTails ==
    {Ending("escape", s) : s \in { <<Backslash>>, <<Backslash, 113>>,
                                 <<Backslash, 113, DQuote>>, <<Backslash, 106, DQuote>> }}

StrTails == {Ending("closed", <<DQuote>>)} \cup EndTails \cup EscapeTails

StrText(w, items, tail) ==
    (IF w = "bare" THEN <<99, Space>> ELSE IF w = "braced" THEN <<LBrace, 99, Space>>
     ELSE <<LBracket>>)
    \o <<DQuote>> \o Concat(items, 1) \o tail.text
    \o (IF tail.kind # "closed" \/ w = "bare" THEN <<>>
        ELSE IF w = "braced" THEN <<RBrace>> ELSE <<RBracket>>)

StrDoc(w, items, tail) == [fam |-> "string", wrap |-> w, toks |-> items, tail |-> tail]

InitString ==
    \E w \in Wraps, items \in SeqsUpTo(StrItems, MaxItems), tail \in StrTails :
        Start(StrDoc(w, items, tail), StrText(w, items, tail))

SpecString == InitString /\ [][Next]_vars

StrDone == Done /\ doc.fam = "string"

(* C11: when the input ends inside a quoted string, in its plain content,
   in the hex digits of a \x or \u escape, or in a continuation or second
   surrogate escape that the escape before it requires, parse fails with
   UnexpectedStringEnd and returns no tree. *)
C11_UnexpectedStringEnd ==
    StrDone /\ doc.tail.kind = "end" => out = Error(Err("UnexpectedStringEnd"))

(* `c "\xff` after a whole item: the continuation escapes are missing *)
C11_Witness ==
    /\ StrDone /\ doc.tail = Ending("end", <<Backslash, 120, 102, 102>>)
    /\ Len(doc.toks) > 0
    /\ out = Error(Err("UnexpectedStringEnd"))

(* C12: when the input ends right after the backslash that opens an
   escape, or the character after it is not a recognised escape letter,
   parse fails with UnexpectedCharEscapeEnd. *)
C12_UnexpectedCharEscapeEnd ==
    StrDone /\ doc.tail.kind = "escape" => out = Error(Err("UnexpectedCharEscapeEnd"))

(* `c "\j"`-like: an unrecognised letter, with the closing quote after it *)
C12_Witness ==
    /\ StrDone /\ doc.tail = Ending("escape", <<Backslash, 106, DQuote>>)
    /\ out = Error(Err("UnexpectedCharEscapeEnd"))

----------------------------------------------------------------------------
(* Key paths and the lookup of LSDGetExt *)

(* KeyPathPart *)
Key(s) == [t |-> "Key", s |-> s, i |-> 0]
Index(i) == [t |-> "Index", s |-> <<>>, i |-> i]

(* usize's Display: the decimal digits *)
RECURSIVE usize_to_string(_)
usize_to_string(n) ==
    IF n < 10 THEN <<48 + n>> ELSE Append(usize_to_string(n \div 10), 48 + (n % 10))

(* Display for KeyPathPart *)
to_string(part) == IF part.t = "Key" THEN part.s ELSE usize_to_string(part.i)

RECURSIVE digits_value(_, _, _)
digits_value(s, i, acc) ==
    IF i > Len(s) THEN acc ELSE digits_value(s, i + 1, acc * 10 + (s[i] - 48))

(* str::parse::<usize>: an optional `+` and one or more decimal digits;
   -1 for Err *)
parse_usize(s) ==
    LET digits == IF Len(s) > 0 /\ s[1] = 43 THEN SubSeq(s, 2, Len(s)) ELSE s IN
    IF digits = <<>> \/ \E i \in 1..Len(digits) : digits[i] \notin 48..57 THEN -1
    ELSE digits_value(digits, 1, 0)

(* From<&str> for KeyPathPart *)
from_str(value) ==
    IF parse_usize(value) # -1 THEN Index(parse_usize(value)) ELSE Key(value)

(* Option<&LSD> *)
Nothing == [some |-> FALSE, node |-> Level(<<>>)]
Found(node) == [some |-> TRUE, node |-> node]

RECURSIVE lsd_inner(_, _)

(* LSDGetExt for Level: inner *)
level_inner(node, parts) ==
    IF parts = <<>> THEN Nothing
    ELSE IF HasKey(node.ents, to_string(parts[1]))
         THEN lsd_inner(Get(node.ents, to_string(parts[1])), SubSeq(parts, 2, Len(parts)))
    ELSE Nothing

(* LSDGetExt for List: inner that takes the index as one-based *)
list_inner_one_based(node, parts) ==
    IF parts = <<>> THEN Nothing
    ELSE IF parts[1].t = "Index"
         THEN IF parts[1].i \in 1..Len(node.items)
              THEN lsd_inner(node.items[parts[1].i], SubSeq(parts, 2, Len(parts)))
              ELSE Nothing
    ELSE Nothing

(* LSDGetExt for List: inner *)
list_inner(node, parts) ==
    IF parts = <<>> THEN Nothing
    ELSE IF parts[1].t = "Index"
         THEN IF parts[1].i + 1 \in 1..Len(node.items)
              THEN lsd_inner(node.items[parts[1].i + 1], SubSeq(parts, 2, Len(parts)))
              ELSE Nothing
    ELSE Nothing

(* LSDGetExt for LSD: inner *)
lsd_inner(node, parts) ==
    IF Len(parts) = 0 THEN Found(node)
    ELSE IF node.t = "Level" THEN level_inner(node, parts)
    ELSE IF node.t = "List" THEN list_inner(node, parts)
    ELSE Nothing

(* Result<Option<&_>, E> of value / list / level *)
OkNone == [ok |-> TRUE, some |-> FALSE, node |-> Level(<<>>)]
OkSome(node) == [ok |-> TRUE, some |-> TRUE, node |-> node]
ErrInvalid == [ok |-> FALSE, some |-> FALSE, node |-> Level(<<>>)]

(* inner(parts).map(LSD::as_<variant>).map(|v| v.ok_or_else(invalid)).transpose() *)
typed(variant, r) ==
    IF ~r.some THEN OkNone
    ELSE IF r.node.t = variant THEN OkSome(r.node)
    ELSE ErrInvalid

LSDGetExt_value(node, parts) == typed("Value", lsd_inner(node, parts))
LSDGetExt_list(node, parts) == typed("List", lsd_inner(node, parts))
LSDGetExt_level(node, parts) == typed("Level", lsd_inner(node, parts))

----------------------------------------------------------------------------
(* Lookups on built trees: a root list or level of up to MaxWidth children
   and a path of up to MaxPath parts. *)

MaxWidth == 2
MaxPath == 2

(* v   [w]   {0 w} *)
Kids ==
    { Value(<<118>>), List(<<Value(<<119>>)>>),
      Level(<<[k |-> <<48>>, v |-> Value(<<119>>)]>>) }

(* a   2   01   +1 *)
GetKeys == { <<97>>, <<50>>, <<48, 49>>, <<43, 49>> }

Trees ==
    {List(items) : items \in SeqsUpTo(Kids, MaxWidth)}
    \cup {Level(ents) : ents \in
            {e \in SeqsUpTo([k : GetKeys, v : Kids], MaxWidth) :
                \A i, j \in 1..Len(e) : e[i].k = e[j].k => i = j}}

Parts == {Key(<<97>>), Index(0), Index(1), Index(2)}

GetDoc(tree, parts) == [fam |-> "get", wrap |-> "none", tree |-> tree, parts |-> parts]

InitGet ==
    \E tree \in Trees, parts \in SeqsUpTo(Parts, MaxPath) :
        /\ doc = GetDoc(tree, parts)
        /\ input = <<>>
        /\ pos = 1
        /\ pc = "ask"
        /\ built = <<>>
        /\ out = NotYet

Got(op, asked, res) == [op |-> op, asked |-> asked, res |-> res]

Answer(op, asked, res) ==
    /\ pc = "ask"
    /\ out' = Got(op, asked, res)
    /\ pc' = "got"
    /\ UNCHANGED <<doc, input, pos, built>>

GetInner == Answer("inner", <<>>, lsd_inner(doc.tree, doc.parts))
GetValue == Answer("value", <<>>, LSDGetExt_value(doc.tree, doc.parts))
GetList == Answer("list", <<>>, LSDGetExt_list(doc.tree, doc.parts))
GetLevel == Answer("level", <<>>, LSDGetExt_level(doc.tree, doc.parts))

(* inner(key![k]) for a key k of the root level, written as a string *)
GetKey ==
    /\ doc.tree.t = "Level"
    /\ \E i \in 1..Len(doc.tree.ents) :
        Answer("key", doc.tree.ents[i].k,
               lsd_inner(doc.tree, <<from_str(doc.tree.ents[i].k)>>))

NextGet == GetInner \/ GetValue \/ GetList \/ GetLevel \/ GetKey

SpecGet == InitGet /\ [][NextGet]_vars

(* the child of a node that a path part names: the item at the index in a
   list, the entry whose key is the part's text in a level *)
Child(node, part) ==
    IF node.t = "List"
    THEN IF part.t = "Index" /\ part.i < Len(node.items) THEN {node.items[part.i + 1]} ELSE {}
    ELSE IF node.t = "Level"
    THEN {node.ents[i].v : i \in {j \in 1..Len(node.ents) : node.ents[j].k = to_string(part)}}
    ELSE {}

(* the nodes reached after the first j parts: one node, or none when a
   part on the way was missing *)
RECURSIVE NodesAt(_, _, _)
NodesAt(tree, parts, j) ==
    IF j = 0 THEN {tree}
    ELSE UNION {Child(n, parts[j]) : n \in NodesAt(tree, parts, j - 1)}

Target == NodesAt(doc.tree, doc.parts, Len(doc.parts))

Variant(op) == IF op = "value" THEN "Value" ELSE IF op = "list" THEN "List" ELSE "Level"

(* C13: a lookup follows the path part by part, an index into a list and
   a key into a level; inner is None when a part is missing and the node
   reached otherwise; value, list and level are Ok(None) when a part is
   missing, Err(invalid()) exactly when the node reached is of another
   variant, and the node otherwise. *)
C13_PathLookup ==
    pc = "got" /\ out.op \in {"inner", "value", "list", "level"}
        => IF Target = {}
           THEN out.res = IF out.op = "inner" THEN Nothing ELSE OkNone
           ELSE \E n \in Target :
                    IF out.op = "inner" THEN out.res = Found(n)
                    ELSE IF n.t = Variant(out.op) THEN out.res = OkSome(n)
                    ELSE out.res = ErrInvalid

(* a key and then an index lead to a Value, and a level was asked for *)
C13_Witness ==
    /\ pc = "got" /\ out.op = "level" /\ out.res = ErrInvalid
    /\ Len(doc.parts) = 2 /\ doc.parts[1].t = "Key" /\ doc.parts[2].t = "Index"

(* C20: a key of a level, given as a string and made a path part by
   KeyPathPart::from, finds the entry of that key. *)
C20_KeyFindsEntry ==
    pc = "got" /\ out.op = "key"
        => out.res = Found(Get(doc.tree.ents, out.asked))

----------------------------------------------------------------------------
(* The skip at the head of parse and the choice of the root *)

(* the arm of parse a document takes: read_level answers at `{`,
   read_list at `[`, and read_level_inner(stream, false) takes the rest *)
RootKind(s) ==
    LET c == peek(s, read_nws(s, 1).pos) IN
    IF c = LBrace THEN "level" ELSE IF c = LBracket THEN "list" ELSE "bare"

HasBreak(s, from, to) == \E i \in from..to : s[i] \in {CR, LF}

(* C14 as amended: read_nws returns whether it consumed a line
   terminator, and parse does not use the answer: the root is a braced
   level or a list exactly when the first character after the skip is `{`
   or `[`, and a bare level body otherwise, with or without a line break
   before it. *)
C14_FirstCharDecides ==
    /\ pc # "start" /\ doc.fam = "raw"
        => read_nws(input, 1).nl = HasBreak(input, 1, read_nws(input, 1).pos - 1)
    /\ Done /\ doc.fam = "raw" /\ RootKind(input) # "bare"
        => (out.ok => pos > Len(input) /\ (out.tree.t = "List") = (RootKind(input) = "list"))
    /\ Done /\ doc.fam = "raw" /\ RootKind(input) = "bare"
        => /\ out.ok => out.tree.t = "Level"
           /\ out.err.kind # "UnexpectedCharAtFileEnd"

(* a root list behind a line break *)
C14_Witness ==
    /\ Done /\ doc.fam = "raw" /\ out.ok /\ out.tree.t = "List"
    /\ read_nws(input, 1).nl

(* C14: the answer of the skip at the start of the document decides
   whether what follows is tried as a list or braced level or is taken as
   a bare level body: documents with the same answer take the same way. *)
C14_ResultDecides ==
    pc = "root" /\ doc.fam = "raw"
        => \A d \in SeqsUpTo({LF, LBracket, 97}, 2) :
              read_nws(d, 1).nl = read_nws(input, 1).nl
                  => (RootKind(d) = "bare") = (peek(input, pos) \notin {LBrace, LBracket})

----------------------------------------------------------------------------
(* The same fragments as the value of key c and, on the next line, as the
   item of the list at key d. *)

(* a   "x y"   'q\n'   ""   ' '   '\t' *)
EmptyQuoted == Quoted(<<DQuote, DQuote>>, <<>>)

BothToks ==
    { Word(<<97>>),
      Quoted(<<DQuote, 120, Space, 121, DQuote>>, <<120, Space, 121>>),
      Quoted(<<SQuote, 113, Backslash, 110, SQuote>>, <<113, LF>>),
      EmptyQuoted, Blank(<<Space>>), Blank(<<Tab>>) }

BothText(w, toks) ==
    Wrapped(w, <<99, Space>> \o Concat(toks, 1)
                 \o <<LF, 100, LBracket>> \o Concat(toks, 1) \o <<RBracket>>)

BothDoc(w, toks) == [fam |-> "both", wrap |-> w, toks |-> toks]

InitBoth ==
    \E w \in Wraps, toks \in SeqsUpTo(BothToks, MaxToks) :
        Start(BothDoc(w, toks), BothText(w, toks))

SpecBoth == InitBoth /\ [][Next]_vars

(* C15: words and quoted strings on one line, without `{ } [ ] .` outside
   quotes, give the same text as a list item and as the value of a key;
   an empty quoted string is accepted in both and adds nothing. *)
C15_ListItemLikeValue ==
    Done /\ doc.fam = "both" /\ HasFrag(doc.toks)
        => /\ out.ok
           /\ Get(Body(doc, out.tree), <<99>>).t = "Value"
           /\ Get(Body(doc, out.tree), <<100>>) = List(<<Get(Body(doc, out.tree), <<99>>)>>)

----------------------------------------------------------------------------
(* One word as the value of key c: up to MaxWordLen characters of
   a { } [ ] . that do not begin with `{` or `[`, followed by the end of
   the body, a blank and another word, a line break and another pair, a
   quoted string, or a comment. *)

MaxWordLen == 3

WordChars == {97, LBrace, RBrace, LBracket, RBracket, Dot}

ValueWords ==
    {w \in SeqsUpTo(WordChars, MaxWordLen) : w # <<>> /\ w[1] \notin {LBrace, LBracket}}

(* what follows the word, and what it adds to the value *)
After(text, val) == [text |-> text, val |-> val]

Afters ==
    { After(<<>>, <<>>), After(<<Space, 98>>, <<Space, 98>>), After(<<Tab, 98>>, <<Tab, 98>>),
      After(<<LF, 100, Space, 49>>, <<>>), After(<<CR>>, <<>>),
      After(<<DQuote, 120, DQuote>>, <<120>>), After(<<Hash, 122, LF>>, <<>>) }

WordText(w, word, after) == Wrapped(w, <<99, Space>> \o word \o after.text)

WordDoc(w, word, after) ==
    [fam |-> "word", wrap |-> w, toks |-> <<>>, word |-> word, after |-> after]

InitWord ==
    \E w \in Wraps, word \in ValueWords, after \in Afters :
        Start(WordDoc(w, word, after), WordText(w, word, after))

SpecWord == InitWord /\ [][Next]_vars

WordDone == Done /\ doc.fam = "word"

HasChar(s, c) == \E i \in 1..Len(s) : s[i] = c

(* the part of a word before its first `}` *)
RECURSIVE BeforeClose(_, _)
BeforeClose(s, i) ==
    IF i > Len(s) \/ s[i] = RBrace THEN SubSeq(s, 1, i - 1) ELSE BeforeClose(s, i + 1)

(* C16 as amended: in the value of a key a word runs up to the end of
   input, a space, a tab, a line terminator, a quote, `#` or `}`;
   `{ [ ] .` inside it are ordinary characters.  A value that begins
   with `}` holds no word. *)
C16_WordEndsAtClose ==
    WordDone =>
        IF ~HasChar(doc.word, RBrace)
        THEN out.ok /\ Get(Body(doc, out.tree), <<99>>) = Value(doc.word \o doc.after.val)
        ELSE IF doc.word[1] = RBrace
        THEN out = Error(Err("ExpectedLSDAfterKey"))
        ELSE /\ doc.wrap = "bare" => out.ok
             /\ out.ok => Get(Body(doc, out.tree), <<99>>) = Value(BeforeClose(doc.word, 1))

(* `c a.}[` in a bare body: the value is `a.` *)
C16_Witness ==
    /\ WordDone /\ out.ok /\ Len(doc.word) = 3
    /\ doc.word[2] \in {Dot, LBrace, LBracket, RBracket} /\ doc.word[3] = RBrace
    /\ Get(Body(doc, out.tree), <<99>>) = Value(SubSeq(doc.word, 1, 2))

(* C16: in the value of a key a word runs up to the end of input, a
   space, a tab, a line terminator, a quote or `#`; `{ } [ ] .` inside
   it are ordinary characters. *)
C16_WordDelimiters ==
    WordDone /\ doc.wrap = "bare"
        => out.ok /\ Get(Body(doc, out.tree), <<99>>) = Value(doc.word \o doc.after.val)

----------------------------------------------------------------------------
(* Level bodies of up to MaxPairs pairs of a dotted key path and a scalar;
   the scalar of the i-th pair is the digit i. *)

(* a   b   a.b   a.c   a.b.c *)
ScalarPaths ==
    { <<(<<97>>)>>, <<(<<98>>)>>, <<(<<97>>), (<<98>>)>>, <<(<<97>>), (<<99>>)>>,
      <<(<<97>>), (<<98>>), (<<99>>)>> }

RECURSIVE ScalarLines(_, _)
ScalarLines(paths, i) ==
    IF i > Len(paths) THEN <<>>
    ELSE PathText(paths[i], 1) \o <<Space, 48 + i>>
         \o (IF i < Len(paths) THEN <<LF>> ELSE <<>>) \o ScalarLines(paths, i + 1)

ScalarDoc(w, paths) == [fam |-> "scalars", wrap |-> w, toks |-> paths]

InitScalars ==
    \E w \in Wraps, paths \in SeqsUpTo(ScalarPaths, MaxPairs) :
        Start(ScalarDoc(w, paths), Wrapped(w, ScalarLines(paths, 1)))

SpecScalars == InitScalars /\ [][Next]_vars

(* pair j has the path of an earlier pair, or one of the two paths begins
   the other *)
Conflicts(paths, j) ==
    \E i \in 1..(j - 1) : IsPrefix(paths[i], paths[j]) \/ IsPrefix(paths[j], paths[i])

ProperPrefixBefore(paths, j) ==
    \E i \in 1..(j - 1) : IsPrefix(paths[i], paths[j]) /\ paths[i] # paths[j]

ConflictFree(paths) == \A j \in 1..Len(paths) : ~Conflicts(paths, j)

(* C17: a body of pairs of a key path and a scalar parses exactly when no
   path equals or begins another.  The first pair in conflict with an
   earlier one gives KeyCollisionShouldBeLevelButIsNot when an earlier
   path is a proper prefix of its path and KeyCollisionKeyAlreadyExists
   otherwise.  After a successful parse every scalar is at its path. *)
C17_PrefixFreePaths ==
    Done /\ doc.fam = "scalars" =>
        /\ out.ok = ConflictFree(doc.toks)
        /\ out.ok => \A i \in 1..Len(doc.toks) :
                        Lookup(Body(doc, out.tree), doc.toks[i], 1) = Value(<<48 + i>>)
        /\ ~out.ok =>
              \E j \in 1..Len(doc.toks) :
                  /\ Conflicts(doc.toks, j)
                  /\ \A i \in 1..(j - 1) : ~Conflicts(doc.toks, i)
                  /\ out.err = IF ProperPrefixBefore(doc.toks, j)
                               THEN Err("KeyCollisionShouldBeLevelButIsNot")
                               ELSE KeyCollisionKeyAlreadyExists(Last(doc.toks[j]))

(* a.b and a.c side by side, then a.b.c under the scalar a.b *)
C17_Witness ==
    /\ Done /\ doc.fam = "scalars" /\ Len(doc.toks) = 3
    /\ ~Conflicts(doc.toks, 2) /\ Len(doc.toks[1]) = 2 /\ Len(doc.toks[2]) = 2
    /\ Len(doc.toks[3]) = 3
    /\ out = Error(Err("KeyCollisionShouldBeLevelButIsNot"))

----------------------------------------------------------------------------
(* Termination.  parse is a sequential program that runs until it
   returns: while it has not returned it takes a step again and again. *)

(* a [ 1 "x" {b 2} ]       {a.b "q\n" # c         [ [ ] { } "\x41é" ] # g
   c d  'e' # f             d.e [
                             1 2                   a.b {c [ "" ]}
                             {} ] }                a.d 1                      *)
Samples ==
    { <<97, 32, 91, 32, 49, 32, 34, 120, 34, 32, 123, 98, 32, 50, 125, 32, 93, 10, 99, 32, 100, 32, 32, 39, 101, 39, 32, 35, 32, 102, 10>>,
      <<123, 97, 46, 98, 32, 34, 113, 92, 110, 34, 32, 35, 32, 99, 10, 32, 100, 46, 101, 32, 91, 10, 32, 49, 32, 50, 10, 32, 123, 125, 32, 93, 32, 125>>,
      <<91, 32, 91, 32, 93, 32, 123, 32, 125, 32, 34, 92, 120, 52, 49, 92, 117, 48, 48, 101, 57, 34, 32, 93, 32, 35, 32, 103>>,
      <<97, 46, 98, 32, 123, 99, 32, 91, 32, 34, 34, 32, 93, 125, 10, 97, 46, 100, 32, 49, 13, 10>> }

InitSamples == \E s \in Samples : Start(RawDoc(s), s)

InitLive == InitScalars \/ InitSamples

Running == []<>(pc = "done") \/ []<><<Next>>_vars

SpecLive == InitLive /\ [][Next]_vars /\ Running

(* a reader that answers Some has consumed at least one character, and a
   skip never moves back: the loops built on them go on only after
   progress *)
Moved(r, p) == r.some => r.pos > p

Progress(s) ==
    \A p \in 1..(Len(s) + 1) :
        /\ read_iws(s, p) >= p
        /\ read_nws(s, p).pos >= p
        /\ \A ignore_char \in {NoChar, RBrace} :
            /\ Moved(read_word(s, p, ignore_char), p)
            /\ Moved(read_value_part(s, p, ignore_char), p)
            /\ Moved(read_value(s, p, ignore_char), p)
            /\ Moved(read_lsd(s, p, ignore_char), p)
        /\ Moved(read_key_word(s, p), p)
        /\ Moved(read_string(s, p), p)
        /\ Moved(read_key_part(s, p), p)
        /\ Moved(read_key_path(s, p), p)
        /\ Moved(read_list_value(s, p), p)
        /\ Moved(read_list_lsd(s, p), p)
        /\ Moved(read_level(s, p), p)
        /\ Moved(read_list(s, p), p)

(* what is left to do: the characters not yet read, then the steps of
   parse after the last one *)
Rank(p) == IF p = "start" THEN 4 ELSE IF p = "root" THEN 3 ELSE IF p = "bare" THEN 2
           ELSE IF p = "end" THEN 1 ELSE 0

Measure == 5 * (Len(input) + 1 - pos) + Rank(pc)

(* C18: parse returns on every input: each reader that lets a loop go on
   has consumed a character, every step of parse, an iteration of the
   loop of the bare root level among them, brings the end nearer, and the
   run reaches its end. *)
C18_Terminates ==
    /\ []Progress(input)
    /\ [][Measure' < Measure /\ Measure' >= 0]_vars
    /\ [][pc' = "bare" => pos' > pos]_vars
    /\ <>Done

(* a bare body of three pairs read to its end *)
C18_Witness ==
    /\ Done /\ doc.fam = "scalars" /\ doc.wrap = "bare" /\ Len(doc.toks) = 3
    /\ out.ok /\ Len(built) = 2 /\ pos > Len(input)

----------------------------------------------------------------------------
(* One Unicode scalar value written as the \x escapes of its UTF-8 bytes,
   in a quoted string that is the value of key c. *)

(* A  DEL  U+0080  é  U+07FF  U+0800  €  U+FFFF  U+10000  😀  U+10FFFF *)
Scalars == {65, 127, 128, 233, 2047, 2048, 8364, 65535, 65536, 128512, 1114111}

(* the UTF-8 encoding of a scalar value *)
Utf8(c) ==
    IF c < 128 THEN <<c>>
    ELSE IF c < 2048 THEN <<192 + (c \div 64), 128 + (c % 64)>>
    ELSE IF c < 65536
         THEN <<224 + (c \div 4096), 128 + ((c \div 64) % 64), 128 + (c % 64)>>
    ELSE <<240 + (c \div 262144), 128 + ((c \div 4096) % 64),
           128 + ((c \div 64) % 64), 128 + (c % 64)>>

HexDigit(n, upper) == IF n < 10 THEN 48 + n ELSE (IF upper THEN 65 ELSE 97) + (n - 10)

(* \xHH for every byte; x is the escape letter, `x` or `X` *)
RECURSIVE ByteEscapes(_, _, _, _)
ByteEscapes(bytes, i, x, upper) ==
    IF i > Len(bytes) THEN <<>>
    ELSE <<Backslash, x, HexDigit(bytes[i] \div 16, upper), HexDigit(bytes[i] % 16, upper)>>
         \o ByteEscapes(bytes, i + 1, x, upper)

Utf8Text(w, q, c, x, upper) ==
    Wrapped(w, <<99, Space, q>> \o ByteEscapes(Utf8(c), 1, x, upper) \o <<q>>)

Utf8Doc(w, c) == [fam |-> "utf8", wrap |-> w, toks |-> <<>>, scalar |-> c]

InitUtf8 ==
    \E w \in Wraps, q \in {DQuote, SQuote}, c \in Scalars, x \in {120, 88}, upper \in BOOLEAN :
        Start(Utf8Doc(w, c), Utf8Text(w, q, c, x, upper))

SpecUtf8 == InitUtf8 /\ [][Next]_vars

(* C19: a quoted string that holds the \x escapes of the UTF-8 bytes of
   one scalar value, one escape for each byte, decodes to that one
   character. *)
C19_ByteEscapesDecode ==
    Done /\ doc.fam = "utf8"
        => out.ok /\ Get(Body(doc, out.tree), <<99>>) = Value(<<doc.scalar>>)

====
